---- MODULE Spec2Model ----
(***************************************************************************)
(* HeapGraphWalker (src/trace_processor/importers/proto/                   *)
(* heap_graph_walker.cc): Tarjan SCC discovery over a heap ownership graph *)
(* with fractional-ownership propagation of retained sizes.                *)
(*                                                                         *)
(* Rows are 0-based as in the code; nodes_[row] is nodes_[row + 1] here,   *)
(* components_[id] is components_[id + 1].  std::set<Node*> iterates in    *)
(* address order, which for elements of the nodes_ vector is row order;    *)
(* std::map iterates in key order.                                         *)
(***************************************************************************)
EXTENDS Integers, Sequences, FiniteSets, TLC

\* Bounds of the model.
MaxNodes == 3
MaxEdges == 4
MaxRoots == 2
MaxOperand == 4
MaxFraction == 12

VARIABLES
  nodes_,            \* std::vector<Node>
  components_,       \* std::vector<Component>
  node_stack_,       \* std::vector<Node*>, as rows
  next_node_index_,  \* uint64_t
  delegate_,         \* the calls received by the Delegate, in order
  fatal,             \* the PERFETTO_CHECK that aborted the program, or "none"
  roots,             \* rows MarkRoot has been called with
  calculated,        \* CalculateRetained has returned at least once
  fraction,          \* a Fraction object and the operation that set it
  frames             \* the calls in progress, innermost last

vars == <<nodes_, components_, node_stack_, next_node_index_, delegate_,
          fatal, roots, calculated, fraction, frames>>

-----------------------------------------------------------------------------
\* Containers.

EmptyMap == [k \in {} |-> 0]

MapPut(m, k, v) == [x \in (DOMAIN m) \cup {k} |-> IF x = k THEN v ELSE m[x]]

MapErase(m, k) == [x \in (DOMAIN m) \ {k} |-> m[x]]

MinOf(S) == CHOOSE x \in S : \A y \in S : x <= y

RECURSIVE Ascending(_)
Ascending(S) ==
  IF S = {} THEN <<>>
  ELSE LET m == MinOf(S) IN <<m>> \o Ascending(S \ {m})

RECURSIVE SumOver(_, _)
SumOver(f, S) ==
  IF S = {} THEN 0
  ELSE LET x == CHOOSE y \in S : TRUE IN f[x] + SumOver(f, S \ {x})

-----------------------------------------------------------------------------
\* Fraction: <<numerator_, denominator_>>.

RECURSIVE GcdLoop(_, _)
GcdLoop(one, other) ==
  IF other = 0 THEN one ELSE GcdLoop(other, one % other)

Gcd(one, other) ==
  IF one = 1 THEN 1
  ELSE IF other = 1 THEN 1
  ELSE GcdLoop(one, other)

Lcm(one, other) ==
  IF one > other THEN other * (one \div Gcd(one, other))
  ELSE one * (other \div Gcd(one, other))

\* As Reduce, dividing the numerator alone by the gcd.
ReduceNumerator(numerator, denominator) ==
  IF numerator = 0 THEN <<0, 1>>
  ELSE IF numerator = 1 THEN <<numerator, denominator>>
  ELSE <<numerator \div Gcd(numerator, denominator), denominator>>

Reduce(numerator, denominator) ==
  IF numerator = 0 THEN <<0, 1>>
  ELSE IF numerator = 1 THEN <<numerator, denominator>>
  ELSE LET new_gcd == Gcd(numerator, denominator)
       IN <<numerator \div new_gcd, denominator \div new_gcd>>

\* Fraction::Fraction(numerator, denominator); the caller checks denominator > 0.
Fraction(numerator, denominator) == Reduce(numerator, denominator)

\* Fraction(), the value std::map::operator[] inserts.
FractionDefault == Fraction(0, 1)

FractionAdd(a, b) ==
  LET new_denominator == Lcm(a[2], b[2])
      new_numerator == a[1] * (new_denominator \div a[2])
                       + b[1] * (new_denominator \div b[2])
  IN Reduce(new_numerator, new_denominator)

FractionMul(a, b) == Fraction(a[1] * b[1], a[2] * b[2])

\* As FractionEq, comparing the numerator alone.
FractionEqNumerator(a, other) == a[1] = other

FractionEq(a, other) == a[1] = a[2] * other

-----------------------------------------------------------------------------
\* The walker's members as one value, threaded through the recursive calls.

Walker(n, c, s, i, d, f) ==
  [nodes |-> n, components |-> c, node_stack |-> s, next_node_index |-> i,
   delegate |-> d, fatal |-> f]

\* A node after nodes_.resize(), before AddNode sets self_size and row.
DefaultNode ==
  [self_size |-> 0, row |-> 0, children |-> {}, parents |-> {},
   node_index |-> 0, lowlink |-> 0, component |-> -1,
   on_stack |-> FALSE, reachable |-> FALSE]

\* components_.emplace_back()
DefaultComponent ==
  [unique_retained_size |-> 0, incoming_edges |-> 0, orig_incoming_edges |-> 0,
   children_components |-> EmptyMap, lowlink |-> 0]

GetNode(w, row) == w.nodes[row + 1]

Check(w, cond, what) ==
  IF w.fatal = "none" /\ ~cond THEN [w EXCEPT !.fatal = what] ELSE w

-----------------------------------------------------------------------------
\* ReachableNode

\* As ReachableNode, without the walk over the children.
ReachableNodeOnly(w, row) ==
  IF GetNode(w, row).reachable THEN w
  ELSE [w EXCEPT
          !.delegate = Append(@, [call |-> "MarkReachable",
                                  row |-> GetNode(w, row).row]),
          !.nodes[row + 1].reachable = TRUE]

RECURSIVE ReachableNode(_, _), ReachableChildren(_, _)
ReachableNode(w, row) ==
  IF GetNode(w, row).reachable THEN w
  ELSE LET w1 == [w EXCEPT
                    !.delegate = Append(@, [call |-> "MarkReachable",
                                            row |-> GetNode(w, row).row]),
                    !.nodes[row + 1].reachable = TRUE]
       IN ReachableChildren(w1, Ascending(GetNode(w, row).children))

ReachableChildren(w, todo) ==
  IF todo = <<>> THEN w
  ELSE ReachableChildren(ReachableNode(w, Head(todo)), Tail(todo))

-----------------------------------------------------------------------------
\* Helpers of FoundSCC (anonymous namespace).

AddChild(component_to_node, count, child_component_id, last_node_row) ==
  IF count > 1 THEN MapPut(component_to_node, child_component_id, -1)
  ELSE IF child_component_id \notin DOMAIN component_to_node
       THEN MapPut(component_to_node, child_component_id, last_node_row)
       ELSE IF component_to_node[child_component_id] # last_node_row
            THEN MapPut(component_to_node, child_component_id, -1)
            ELSE component_to_node

IsUniqueOwner(component_to_node, count, child_component_id, last_node_row) ==
  IF count > 1 THEN FALSE
  ELSE child_component_id \notin DOMAIN component_to_node
       \/ component_to_node[child_component_id] = last_node_row

\* As MapAdd, adding v twice.
MapAddTwice(m, k, v) ==
  MapPut(m, k, (IF k \in DOMAIN m THEN m[k] ELSE 0) + v + v)

\* m[k] += v on a std::map<int64_t, int64_t>
MapAdd(m, k, v) == MapPut(m, k, (IF k \in DOMAIN m THEN m[k] ELSE 0) + v)

\* m[k] += v on a std::map<int64_t, Fraction>
LedgerAdd(m, k, v) ==
  MapPut(m, k, FractionAdd(IF k \in DOMAIN m THEN m[k] ELSE FractionDefault, v))

\* As RetainedSize, without the components still in the ledger.
RetainedSizeUniqueOnly(w, component) == component.unique_retained_size

RetainedSize(w, component) ==
  component.unique_retained_size
  + SumOver([c \in DOMAIN component.children_components |->
               w.components[c + 1].unique_retained_size],
            DOMAIN component.children_components)

-----------------------------------------------------------------------------------------------------------------------------------------------------
\* FoundSCC.  f carries the walker (f.w) and the locals of the call; every
\* stage returns f unchanged once a PERFETTO_CHECK has failed.

DefaultDirectChild == [edges_from_current_component |-> 0, last_node_row |-> 0]

\* components_.emplace_back(); component.lowlink = node->lowlink; the locals.
FoundLocals(w, node) ==
  [w |-> [w EXCEPT !.components =
            Append(@, [DefaultComponent EXCEPT
                         !.lowlink = GetNode(w, node).lowlink])],
   stack_elem |-> node,
   component_nodes |-> <<>>,
   direct_children_rows |-> EmptyMap,
   unique_retained_by_node |-> EmptyMap,
   component_to_node |-> EmptyMap]

\* stack_elem = node_stack_.back(); component_nodes.emplace_back(stack_elem);
\* node_stack_.pop_back();
PopTake(f) ==
  [f EXCEPT
     !.stack_elem = f.w.node_stack[Len(f.w.node_stack)],
     !.component_nodes = Append(@, f.w.node_stack[Len(f.w.node_stack)]),
     !.w.node_stack = SubSeq(@, 1, Len(@) - 1)]

\* As PopChild, counting a member once however many children it has in the
\* child component.
PopChildPerMember(f, component_id, child) ==
  LET dcr == f.direct_children_rows
      dc == IF child.component \in DOMAIN dcr THEN dcr[child.component]
            ELSE DefaultDirectChild
      seen == /\ child.component \in DOMAIN dcr
              /\ dc.last_node_row = GetNode(f.w, f.stack_elem).row
  IN IF child.on_stack THEN f
     ELSE IF child.component = -1
     THEN [f EXCEPT !.w.fatal = "child->component != -1"]
     ELSE IF child.component # component_id
     THEN [f EXCEPT !.direct_children_rows =
             MapPut(dcr, child.component,
                    [edges_from_current_component |->
                       dc.edges_from_current_component
                       + (IF seen THEN 0 ELSE 1),
                     last_node_row |-> GetNode(f.w, f.stack_elem).row])]
     ELSE f

\* The body of for (Node* child : stack_elem->children).
PopChild(f, component_id, child) ==
  LET dcr == f.direct_children_rows
      dc == IF child.component \in DOMAIN dcr THEN dcr[child.component]
            ELSE DefaultDirectChild
  IN IF child.on_stack THEN f
     ELSE IF child.component = -1
     THEN [f EXCEPT !.w.fatal = "child->component != -1"]
     ELSE IF child.component # component_id
     THEN [f EXCEPT !.direct_children_rows =
             MapPut(dcr, child.component,
                    [edges_from_current_component |->
                       dc.edges_from_current_component + 1,
                     last_node_row |-> GetNode(f.w, f.stack_elem).row])]
     ELSE f

RECURSIVE PopChildren(_, _, _)
PopChildren(f, component_id, todo) ==
  IF todo = <<>> \/ f.w.fatal # "none" THEN f
  ELSE PopChildren(PopChild(f, component_id, GetNode(f.w, Head(todo))),
                   component_id, Tail(todo))

PopChildrenOf(f, component_id) ==
  PopChildren(f, component_id,
              Ascending(GetNode(f.w, f.stack_elem).children))

\* As PopAssign, without stack_elem->on_stack = false.
PopAssignOnStack(f, component_id) ==
  IF f.w.fatal # "none" THEN f
  ELSE IF GetNode(f.w, f.stack_elem).component # -1
  THEN [f EXCEPT !.w.fatal = "stack_elem->component == -1"]
  ELSE [f EXCEPT !.w.nodes[f.stack_elem + 1].component = component_id]

\* stack_elem->on_stack = false; PERFETTO_CHECK(stack_elem->component == -1);
\* stack_elem->component = component_id;
PopAssign(f, component_id) ==
  IF f.w.fatal # "none" THEN f
  ELSE IF GetNode(f.w, f.stack_elem).component # -1
  THEN [f EXCEPT !.w.nodes[f.stack_elem + 1].on_stack = FALSE,
                 !.w.fatal = "stack_elem->component == -1"]
  ELSE [f EXCEPT !.w.nodes[f.stack_elem + 1].on_stack = FALSE,
                 !.w.nodes[f.stack_elem + 1].component = component_id]

\* do { ... } while (stack_elem != node)
RECURSIVE PopLoop(_, _, _), PopWhile(_, _, _)
PopLoop(f, node, component_id) ==
  PopWhile(PopAssign(PopChildrenOf(PopTake(f), component_id), component_id),
           node, component_id)

PopWhile(f, node, component_id) ==
  IF f.w.fatal # "none" \/ f.stack_elem = node THEN f
  ELSE PopLoop(f, node, component_id)

\* As CountElem, counting the parents inside the component too.
CountElemAll(w, component_id, elem) ==
  LET incoming == w.components[component_id + 1].incoming_edges
                  + Cardinality(elem.parents)
  IN [w EXCEPT
        !.components[component_id + 1].unique_retained_size =
           @ + elem.self_size,
        !.components[component_id + 1].incoming_edges = incoming,
        !.components[component_id + 1].orig_incoming_edges = incoming]

\* As CountElem, with unique_retained_size = self_size in place of +=.
CountElemAssign(w, component_id, elem) ==
  LET incoming == w.components[component_id + 1].incoming_edges
                  + Cardinality({p \in elem.parents :
                                   GetNode(w, p).component # component_id})
  IN [w EXCEPT
        !.components[component_id + 1].unique_retained_size = elem.self_size,
        !.components[component_id + 1].incoming_edges = incoming,
        !.components[component_id + 1].orig_incoming_edges = incoming]

\* As CountElem, counting a member that is its own parent as well.
CountElemSelf(w, component_id, elem) ==
  LET incoming == w.components[component_id + 1].incoming_edges
                  + Cardinality({p \in elem.parents :
                                   \/ GetNode(w, p).component # component_id
                                   \/ GetNode(w, p).row = elem.row})
  IN [w EXCEPT
        !.components[component_id + 1].unique_retained_size =
           @ + elem.self_size,
        !.components[component_id + 1].incoming_edges = incoming,
        !.components[component_id + 1].orig_incoming_edges = incoming]

\* The body of for (Node* elem : component_nodes): the member's size and its
\* parents outside the component.
CountElem(w, component_id, elem) ==
  LET incoming == w.components[component_id + 1].incoming_edges
                  + Cardinality({p \in elem.parents :
                                   GetNode(w, p).component # component_id})
  IN [w EXCEPT
        !.components[component_id + 1].unique_retained_size =
           @ + elem.self_size,
        !.components[component_id + 1].incoming_edges = incoming,
        !.components[component_id + 1].orig_incoming_edges = incoming]

RECURSIVE CountIncoming(_, _, _)
CountIncoming(w, component_id, todo) ==
  IF todo = <<>> THEN w
  ELSE CountIncoming(CountElem(w, component_id, GetNode(w, Head(todo))),
                     component_id, Tail(todo))

FoundCount(f, component_id) ==
  IF f.w.fatal # "none" THEN f
  ELSE [f EXCEPT !.w = CountIncoming(f.w, component_id, f.component_nodes)]

\* As Absorb, without the erase() of the absorbed entry.
AbsorbKeepEntry(f, component_id, id, ledger, last_node_row, unique) ==
  IF FractionEq(ledger[id], 1)
  THEN [f EXCEPT
          !.w.components[component_id + 1].children_components = ledger,
          !.w.components[component_id + 1].unique_retained_size =
             @ + f.w.components[id + 1].unique_retained_size,
          !.unique_retained_by_node =
             IF unique
             THEN MapAdd(@, last_node_row,
                         f.w.components[id + 1].unique_retained_size)
             ELSE @]
  ELSE [f EXCEPT
          !.w.components[component_id + 1].children_components = ledger]

\* After component.children_components[id] += ...: if the entry == 1, absorb
\* the component `id`, credit last_node_row when `unique`, and erase the entry.
Absorb(f, component_id, id, ledger, last_node_row, unique) ==
  IF FractionEq(ledger[id], 1)
  THEN [f EXCEPT
          !.w.components[component_id + 1].children_components =
             MapErase(ledger, id),
          !.w.components[component_id + 1].unique_retained_size =
             @ + f.w.components[id + 1].unique_retained_size,
          !.unique_retained_by_node =
             IF unique
             THEN MapAdd(@, last_node_row,
                         f.w.components[id + 1].unique_retained_size)
             ELSE @]
  ELSE [f EXCEPT
          !.w.components[component_id + 1].children_components = ledger]

\* The body of for (auto& comp_p : child_component.children_components).
GrandStep(f, component_id, child_component_id, dc, grand_component_id, child_ownership_fraction) ==
  LET count == dc.edges_from_current_component
      orig == f.w.components[child_component_id + 1].orig_incoming_edges
      c2n == AddChild(f.component_to_node, count, child_component_id,
                      dc.last_node_row)
  IN IF orig <= 0
     THEN [f EXCEPT !.component_to_node = c2n,
                    !.w.fatal = "denominator_ > 0"]
     ELSE Absorb([f EXCEPT !.component_to_node = c2n],
                 component_id, grand_component_id,
                 LedgerAdd(f.w.components[component_id + 1].children_components,
                           grand_component_id,
                           FractionMul(Fraction(count, orig),
                                       child_ownership_fraction)),
                 dc.last_node_row,
                 IsUniqueOwner(c2n, count, grand_component_id,
                               dc.last_node_row))

RECURSIVE GrandLoop(_, _, _, _, _, _)
GrandLoop(f, component_id, child_component_id, dc, ledger, todo) ==
  IF todo = <<>> \/ f.w.fatal # "none" THEN f
  ELSE GrandLoop(GrandStep(f, component_id, child_component_id, dc,
                           Head(todo), ledger[Head(todo)]),
                 component_id, child_component_id, dc, ledger, Tail(todo))

\* As EnterChild, decrementing by one edge whatever the count.
EnterChildOne(f, child_component_id, dc) ==
  [f EXCEPT
     !.component_to_node =
        AddChild(@, dc.edges_from_current_component, child_component_id,
                 dc.last_node_row),
     !.w.components[child_component_id + 1].incoming_edges = @ - 1]

\* AddChild(...); child_component.incoming_edges -= count;
EnterChild(f, child_component_id, dc) ==
  [f EXCEPT
     !.component_to_node =
        AddChild(@, dc.edges_from_current_component, child_component_id,
                 dc.last_node_row),
     !.w.components[child_component_id + 1].incoming_edges =
        @ - dc.edges_from_current_component]

GrandLoopOf(f, component_id, child_component_id, dc) ==
  GrandLoop(f, component_id, child_component_id, dc,
            f.w.components[child_component_id + 1].children_components,
            Ascending(DOMAIN
              f.w.components[child_component_id + 1].children_components))

\* if (child_component.orig_incoming_edges == count) { ... } else { ... }
OwnChild(f, component_id, child_component_id, dc) ==
  LET count == dc.edges_from_current_component
      child_component == f.w.components[child_component_id + 1]
  IN IF f.w.fatal # "none" THEN f
     ELSE IF child_component.orig_incoming_edges = count
     THEN IF child_component.incoming_edges # 0
          THEN [f EXCEPT !.w.fatal = "child_component.incoming_edges == 0"]
          ELSE [f EXCEPT
                  !.w.components[component_id + 1].unique_retained_size =
                     @ + child_component.unique_retained_size,
                  !.unique_retained_by_node =
                     IF count = 1
                     THEN MapAdd(@, dc.last_node_row,
                                 child_component.unique_retained_size)
                     ELSE @]
     ELSE IF child_component.orig_incoming_edges <= 0
     THEN [f EXCEPT !.w.fatal = "denominator_ > 0"]
     ELSE Absorb(f, component_id, child_component_id,
                 LedgerAdd(f.w.components[component_id + 1].children_components,
                           child_component_id,
                           Fraction(count,
                                    child_component.orig_incoming_edges)),
                 dc.last_node_row,
                 IsUniqueOwner(f.component_to_node, count, dc.last_node_row,
                               child_component_id))

\* As ClearChild, without the clear().
ClearChildNever(f, child_component_id) == f

\* if (child_component.incoming_edges == 0)
\*   child_component.children_components.clear();
ClearChild(f, child_component_id) ==
  IF f.w.fatal = "none"
     /\ f.w.components[child_component_id + 1].incoming_edges = 0
  THEN [f EXCEPT
          !.w.components[child_component_id + 1].children_components =
             EmptyMap]
  ELSE f

\* One iteration of for (const auto& p : direct_children_rows).
DirectChildStep(f, component_id, child_component_id, dc) ==
  IF child_component_id = component_id
  THEN [f EXCEPT !.w.fatal = "child_component_id != component_id"]
  ELSE ClearChild(
         OwnChild(
           GrandLoopOf(EnterChild(f, child_component_id, dc),
                       component_id, child_component_id, dc),
           component_id, child_component_id, dc),
         child_component_id)

RECURSIVE DirectChildren(_, _, _)
DirectChildren(f, component_id, todo) ==
  IF todo = <<>> \/ f.w.fatal # "none" THEN f
  ELSE DirectChildren(
         DirectChildStep(f, component_id, Head(todo),
                         f.direct_children_rows[Head(todo)]),
         component_id, Tail(todo))

DirectChildrenOf(f, component_id) ==
  DirectChildren(f, component_id, Ascending(DOMAIN f.direct_children_rows))

\* As EmitRetained, reporting self_size alone as the unique size.
RECURSIVE EmitRetainedSelfOnly(_, _, _, _)
EmitRetainedSelfOnly(w, retained_size, unique_retained_by_node, todo) ==
  IF todo = <<>> THEN w
  ELSE EmitRetainedSelfOnly(
         [w EXCEPT !.delegate =
            Append(@, [call |-> "SetRetained",
                       row |-> GetNode(w, Head(todo)).row,
                       retained_size |-> retained_size,
                       unique_size |-> GetNode(w, Head(todo)).self_size])],
         retained_size, unique_retained_by_node, Tail(todo))

\* for (Node* n : component_nodes) delegate_->SetRetained(...)
RECURSIVE EmitRetained(_, _, _, _)
EmitRetained(w, retained_size, unique_retained_by_node, todo) ==
  IF todo = <<>> THEN w
  ELSE EmitRetained(
         [w EXCEPT !.delegate =
            Append(@, [call |-> "SetRetained",
                       row |-> GetNode(w, Head(todo)).row,
                       retained_size |-> retained_size,
                       unique_size |->
                         GetNode(w, Head(todo)).self_size
                         + (IF GetNode(w, Head(todo)).row
                                 \in DOMAIN unique_retained_by_node
                            THEN unique_retained_by_node[
                                   GetNode(w, Head(todo)).row]
                            ELSE 0)])],
         retained_size, unique_retained_by_node, Tail(todo))

FoundEmit(f, component_id) ==
  IF f.w.fatal # "none" THEN f.w
  ELSE EmitRetained(f.w,
                    RetainedSize(f.w, f.w.components[component_id + 1]),
                    f.unique_retained_by_node, f.component_nodes)

FoundSCCAs(w, node, component_id) ==
  FoundEmit(
    DirectChildrenOf(
      FoundCount(PopLoop(FoundLocals(w, node), node, component_id),
                 component_id),
      component_id),
    component_id)

FoundSCC(w, node) == FoundSCCAs(w, node, Len(w.components))

-----------------------------------------------------------------------------
\* FindSCC

\* node->node_index = node->lowlink = next_node_index_++;
\* node_stack_.push_back(node); node->on_stack = true;
FindEnter(w, node) ==
  [w EXCEPT
     !.nodes[node + 1].node_index = w.next_node_index,
     !.nodes[node + 1].lowlink = w.next_node_index,
     !.nodes[node + 1].on_stack = TRUE,
     !.next_node_index = @ + 1,
     !.node_stack = Append(@, node)]

\* if (child->lowlink < node->lowlink) node->lowlink = child->lowlink;
PullLowlink(w, node, child) ==
  IF w.fatal = "none" /\ GetNode(w, child).lowlink < GetNode(w, node).lowlink
  THEN [w EXCEPT !.nodes[node + 1].lowlink = GetNode(w, child).lowlink]
  ELSE w

\* As PullIndex, leaving the lowlink alone on a back edge.
PullIndexNever(w, node, child) == w

\* if (child->node_index < node->lowlink) node->lowlink = child->node_index;
PullIndex(w, node, child) ==
  IF GetNode(w, child).node_index < GetNode(w, node).lowlink
  THEN [w EXCEPT !.nodes[node + 1].lowlink = GetNode(w, child).node_index]
  ELSE w

\* if (node->lowlink == node->node_index) FoundSCC(node);
FindFinish(w, node) ==
  IF w.fatal = "none"
     /\ GetNode(w, node).lowlink = GetNode(w, node).node_index
  THEN FoundSCC(w, node)
  ELSE w

RECURSIVE FindSCC(_, _), FindChild(_, _, _), FindChildren(_, _, _)
FindSCC(w, node) ==
  FindFinish(FindChildren(FindEnter(w, node), node,
                          Ascending(GetNode(w, node).children)),
             node)

\* As FindChild, without the recursive call for an unvisited child.
FindChildNoDescent(w, node, child) ==
  IF GetNode(w, child).node_index # 0 /\ GetNode(w, child).on_stack
  THEN PullIndex(w, node, child)
  ELSE w

\* The body of for (Node* child : node->children).
FindChild(w, node, child) ==
  IF GetNode(w, child).node_index = 0
  THEN PullLowlink(FindSCC(w, child), node, child)
  ELSE IF GetNode(w, child).on_stack
  THEN PullIndex(w, node, child)
  ELSE w

FindChildren(w, node, todo) ==
  IF todo = <<>> \/ w.fatal # "none" THEN w
  ELSE FindChildren(FindChild(w, node, Head(todo)), node, Tail(todo))

-----------------------------------------------------------------------------
\* Entry points, as functions of the walker.

\* As FindIfNew, without the test of node_index.
FindAlways(w, row) ==
  IF w.fatal = "none" THEN FindSCC(w, row) ELSE w

\* if (n.node_index == 0) FindSCC(&n);
FindIfNew(w, row) ==
  IF w.fatal = "none" /\ GetNode(w, row).node_index = 0
  THEN FindSCC(w, row)
  ELSE w

MarkRootOf(w, row) == FindIfNew(ReachableNode(w, row), row)

\* As Sweep, starting at the second node.
RECURSIVE SweepSkipFirst(_, _)
SweepSkipFirst(w, n) ==
  IF n >= Len(w.nodes) \/ w.fatal # "none" THEN w
  ELSE SweepSkipFirst(IF n = 0 THEN w ELSE FindIfNew(w, n), n + 1)

\* for (Node& n : nodes_) if (n.node_index == 0) FindSCC(&n);
RECURSIVE Sweep(_, _)
Sweep(w, n) ==
  IF n >= Len(w.nodes) \/ w.fatal # "none" THEN w
  ELSE Sweep(FindIfNew(w, n), n + 1)

\* for (const auto& c : components_) PERFETTO_CHECK(c.incoming_edges == 0);
SanityCheck(w) ==
  Check(w, \A i \in 1..Len(w.components) : w.components[i].incoming_edges = 0,
        "c.incoming_edges == 0")

CalculateRetainedOf(w) == SanityCheck(Sweep(w, 0))

-----
\* The state machine: the caller's calls on one HeapGraphWalker.

ThisWalker ==
  Walker(nodes_, components_, node_stack_, next_node_index_, delegate_, fatal)

\* The owner -> owned pairs AddEdge has stored.
Edges ==
  {e \in (0..Len(nodes_) - 1) \X (0..Len(nodes_) - 1) :
     e[2] \in nodes_[e[1] + 1].children}

\* No MarkRoot and no effective CalculateRetained yet, and no call in
\* progress: the graph is still being built (the caller populates the graph
\* before it marks roots).
Building ==
  next_node_index_ = 1 /\ roots = {} /\ ~calculated /\ frames = <<>>

\* A Fraction object: its numerator_ and denominator_ (value), and the
\* operation that stored them with its operands.
FractionObject(op, lhs, rhs, value) ==
  [op |-> op, lhs |-> lhs, rhs |-> rhs, value |-> value]

Init ==
  /\ nodes_ = <<>>
  /\ components_ = <<>>
  /\ node_stack_ = <<>>
  /\ next_node_index_ = 1
  /\ delegate_ = <<>>
  /\ fatal = "none"
  /\ roots = {}
  /\ calculated = FALSE
  /\ fraction = FractionObject("Fraction()", FractionDefault, FractionDefault,
                               FractionDefault)
  /\ frames = <<>>

\* The caller populates the graph, then marks roots, then asks for the final
\* sweep.  Rows are dense (the caller's contract), and nodes_ grows only
\* while no edge holds a pointer into it.
AddNode(row, size) ==
  /\ fatal = "none" /\ Building
  /\ row <= Len(nodes_)
  /\ row >= Len(nodes_) => Edges = {}
  /\ LET resized == IF row >= Len(nodes_)
                    THEN nodes_ \o [i \in 1..(row + 1 - Len(nodes_)) |->
                                      DefaultNode]
                    ELSE nodes_
     IN nodes_' = [resized EXCEPT ![row + 1].self_size = size,
                                  ![row + 1].row = row]
  /\ UNCHANGED <<components_, node_stack_, next_node_index_, delegate_,
                 fatal, roots, calculated, fraction, frames>>

AddEdge(owner_row, owned_row) ==
  /\ fatal = "none" /\ Building
  /\ owner_row < Len(nodes_) /\ owned_row < Len(nodes_)
  /\ <<owner_row, owned_row>> \in Edges \/ Cardinality(Edges) < MaxEdges
  /\ LET n1 == [nodes_ EXCEPT ![owner_row + 1].children = @ \cup {owned_row}]
     IN nodes_' = [n1 EXCEPT ![owned_row + 1].parents = @ \cup {owner_row}]
  /\ UNCHANGED <<components_, node_stack_, next_node_index_, delegate_,
                 fatal, roots, calculated, fraction, frames>>

Return(w) ==
  /\ nodes_' = w.nodes
  /\ components_' = w.components
  /\ node_stack_' = w.node_stack
  /\ next_node_index_' = w.next_node_index
  /\ delegate_' = w.delegate
  /\ fatal' = w.fatal

MarkRoot(row) ==
  /\ fatal = "none" /\ ~calculated
  /\ row < Len(nodes_)
  /\ row \in roots \/ Cardinality(roots) < MaxRoots
  /\ Return(MarkRootOf(ThisWalker, row))
  /\ roots' = roots \cup {row}
  /\ UNCHANGED <<calculated, fraction, frames>>

CalculateRetained ==
  /\ fatal = "none"
  /\ Len(nodes_) > 0
  /\ Return(CalculateRetainedOf(ThisWalker))
  /\ calculated' = (calculated \/ fatal' = "none")
  /\ UNCHANGED <<roots, fraction, frames>>

Rows == 0..(MaxNodes - 1)

\* The self size the caller registers for a row.
SelfSizes(row) == {10 * (row + 1)}

Next ==
  \/ \E row \in Rows : \E size \in SelfSizes(row) : AddNode(row, size)
  \/ \E owner_row \in Rows : \E owned_row \in Rows : AddEdge(owner_row, owned_row)
  \/ \E row \in Rows : MarkRoot(row)
  \/ CalculateRetained

Spec == Init /\ [][Next]_vars

\* The caller registers self sizes 1, 2, 4, ...: a sum of self sizes then
\* tells which nodes were counted, and how often.
PowerSize(row) == 2 ^ row

NextPower ==
  \/ \E row \in Rows : AddNode(row, PowerSize(row))
  \/ \E owner_row \in Rows : \E owned_row \in Rows : AddEdge(owner_row, owned_row)
  \/ \E row \in Rows : MarkRoot(row)
  \/ CalculateRetained

SpecPower == Init /\ [][NextPower]_vars

\* The P6 diamond: R -> A, R -> B, A -> S, B -> S on rows 0 (R), 1 (A),
\* 2 (B), 3 (S).
DiamondSizes == <<1, 10, 20, 100>>

DiamondEdges == {<<0, 1>>, <<0, 2>>, <<1, 3>>, <<2, 3>>}

NextDiamond ==
  \/ \E row \in DOMAIN DiamondSizes : AddNode(row - 1, DiamondSizes[row])
  \/ \E e \in DiamondEdges : AddEdge(e[1], e[2])
  \/ \E row \in DOMAIN DiamondSizes : MarkRoot(row - 1)
  \/ CalculateRetained

SpecDiamond == Init /\ [][NextDiamond]_vars

\* AddEdge for a caller that stores the edges of one given graph.
AddEdgeOfGraph(graph_edges, owner_row, owned_row) ==
  /\ fatal = "none" /\ Building
  /\ owner_row < Len(nodes_) /\ owned_row < Len(nodes_)
  /\ <<owner_row, owned_row>> \in graph_edges
  /\ LET n1 == [nodes_ EXCEPT ![owner_row + 1].children = @ \cup {owned_row}]
     IN nodes_' = [n1 EXCEPT ![owned_row + 1].parents = @ \cup {owner_row}]
  /\ UNCHANGED <<components_, node_stack_, next_node_index_, delegate_,
                 fatal, roots, calculated, fraction, frames>>

\* A cycle M1 <-> M2 whose members reach G through different children:
\* M1 -> C -> G and M2 -> D -> G, on rows 0 (M1), 1 (M2), 2 (C), 3 (D),
\* 4 (G).
SharedSizes == <<1, 2, 4, 8, 16>>

SharedEdges ==
  {<<0, 1>>, <<1, 0>>, <<0, 2>>, <<1, 3>>, <<2, 4>>, <<3, 4>>}

NextShared ==
  \/ \E row \in DOMAIN SharedSizes : AddNode(row - 1, SharedSizes[row])
  \/ \E e \in SharedEdges : AddEdgeOfGraph(SharedEdges, e[1], e[2])
  \/ \E row \in DOMAIN SharedSizes : MarkRoot(row - 1)
  \/ CalculateRetained

SpecShared == Init /\ [][NextShared]_vars

\* The Fraction class on its own: one object, constructed and then updated
\* in place by += or replaced by the result of *.
WalkerUnchanged ==
  UNCHANGED <<nodes_, components_, node_stack_, next_node_index_, delegate_,
              roots, calculated, frames>>

\* Fraction f(numerator, denominator);
FractionCtor(numerator, denominator) ==
  /\ fatal = "none"
  /\ IF denominator > 0
     THEN /\ fraction' = FractionObject("Fraction", <<numerator, denominator>>,
                                        <<numerator, denominator>>,
                                        Fraction(numerator, denominator))
          /\ UNCHANGED fatal
     ELSE /\ fatal' = "denominator_ > 0"
          /\ UNCHANGED fraction
  /\ WalkerUnchanged

\* The results kept within the bound of the model.
Bounded(value) == value[1] <= MaxFraction /\ value[2] <= MaxFraction

\* f += other;
FractionPlusAssign(other) ==
  /\ fatal = "none"
  /\ Bounded(FractionAdd(fraction.value, other))
  /\ fraction' = FractionObject("+=", fraction.value, other,
                                FractionAdd(fraction.value, other))
  /\ UNCHANGED fatal
  /\ WalkerUnchanged

\* f = f * other;
FractionTimes(other) ==
  /\ fatal = "none"
  /\ Bounded(FractionMul(fraction.value, other))
  /\ fraction' = FractionObject("*", fraction.value, other,
                                FractionMul(fraction.value, other))
  /\ UNCHANGED fatal
  /\ WalkerUnchanged

\* The operands: the Fraction objects of numerators 0..MaxOperand and
\* denominators 1..MaxOperand.
Operands ==
  {Fraction(n, d) : n \in 0..MaxOperand, d \in 1..MaxOperand}

NextFraction ==
  \/ \E n \in 0..MaxOperand : \E d \in 0..MaxOperand : FractionCtor(n, d)
  \/ \E other \in Operands : FractionPlusAssign(other)
  \/ \E other \in Operands : FractionTimes(other)

SpecFraction == Init /\ [][NextFraction]_vars

-----------------------------------------------------------------------------
\* The search statement by statement.  A frame is a call in progress:
\* FindSCC(node) with the children its loop has still to visit (todo), or,
\* with node = -1, the loop of CalculateRetained over nodes_.  FoundSCC runs
\* within the step that ends FindSCC.

Frame(node, todo) == [node |-> node, todo |-> todo]

\* The frames with the loop of the innermost call moved past its current
\* element.
Advance(fs) == [fs EXCEPT ![Len(fs)].todo = Tail(@)]

\* FindSCC(node) up to its loop: line 307-309.
FindCall(w, fs, node) ==
  /\ Return(FindEnter(w, node))
  /\ frames' = Append(fs, Frame(node, Ascending(GetNode(w, node).children)))

\* MarkRoot(row) up to the call of FindSCC, or all of it when the node has
\* been visited.
MarkRootCall(row) ==
  /\ fatal = "none" /\ ~calculated /\ frames = <<>>
  /\ row < Len(nodes_)
  /\ row \in roots \/ Cardinality(roots) < MaxRoots
  /\ IF GetNode(ReachableNode(ThisWalker, row), row).node_index = 0
     THEN FindCall(ReachableNode(ThisWalker, row), frames, row)
     ELSE Return(ReachableNode(ThisWalker, row)) /\ UNCHANGED frames
  /\ roots' = roots \cup {row}
  /\ UNCHANGED <<calculated, fraction>>

\* CalculateRetained() up to its first loop.
CalculateRetainedCall ==
  /\ fatal = "none" /\ frames = <<>>
  /\ Len(nodes_) > 0
  /\ frames' = <<Frame(-1, [i \in 1..Len(nodes_) |-> i - 1])>>
  /\ UNCHANGED <<nodes_, components_, node_stack_, next_node_index_,
                 delegate_, fatal, roots, calculated, fraction>>

\* One iteration of for (Node& n : nodes_) in CalculateRetained, up to the
\* call of FindSCC.
SweepStep ==
  /\ fatal = "none" /\ frames # <<>>
  /\ frames[Len(frames)].node = -1 /\ frames[Len(frames)].todo # <<>>
  /\ IF GetNode(ThisWalker, Head(frames[Len(frames)].todo)).node_index = 0
     THEN FindCall(ThisWalker, Advance(frames),
                   Head(frames[Len(frames)].todo))
     ELSE /\ frames' = Advance(frames)
          /\ UNCHANGED <<nodes_, components_, node_stack_, next_node_index_,
                         delegate_, fatal>>
  /\ UNCHANGED <<roots, calculated, fraction>>

\* The end of CalculateRetained: the sanity check, and the return.
SweepReturn ==
  /\ fatal = "none" /\ frames # <<>>
  /\ frames[Len(frames)].node = -1 /\ frames[Len(frames)].todo = <<>>
  /\ Return(SanityCheck(ThisWalker))
  /\ frames' = <<>>
  /\ calculated' = (calculated \/ fatal' = "none")
  /\ UNCHANGED <<roots, fraction>>

\* One iteration of for (Node* child : node->children) in FindSCC, up to
\* the recursive call for an unvisited child.
ChildStep ==
  /\ fatal = "none" /\ frames # <<>>
  /\ frames[Len(frames)].node # -1 /\ frames[Len(frames)].todo # <<>>
  /\ LET node == frames[Len(frames)].node
         child == Head(frames[Len(frames)].todo)
     IN IF GetNode(ThisWalker, child).node_index = 0
        THEN FindCall(ThisWalker, frames, child)
        ELSE /\ Return(IF GetNode(ThisWalker, child).on_stack
                       THEN PullIndex(ThisWalker, node, child)
                       ELSE ThisWalker)
             /\ frames' = Advance(frames)
  /\ UNCHANGED <<roots, calculated, fraction>>

\* The caller's frames after FindSCC(node) returned, and the walker after the
\* caller's statement that follows the call: in FindSCC the update of the
\* lowlink (line 313-314).
AfterCall(w, fs, node) ==
  IF fs # <<>> /\ fs[Len(fs)].node # -1
  THEN /\ Return(PullLowlink(w, fs[Len(fs)].node, node))
       /\ frames' = Advance(fs)
  ELSE /\ Return(w)
       /\ frames' = fs

\* The end of FindSCC: line 321-322, and the return to the caller.
FindReturn ==
  /\ fatal = "none" /\ frames # <<>>
  /\ frames[Len(frames)].node # -1 /\ frames[Len(frames)].todo = <<>>
  /\ AfterCall(FindFinish(ThisWalker, frames[Len(frames)].node),
               SubSeq(frames, 1, Len(frames) - 1),
               frames[Len(frames)].node)
  /\ UNCHANGED <<roots, calculated, fraction>>

\* The graphs of the statement-wise search: four nodes and any of these
\* edges (a cycle 0 -> 1 -> 2 -> 0, a second cycle through 3, a shared
\* child and a self-edge).
StepSizes == <<10, 20, 30, 40>>

StepEdges ==
  {<<0, 1>>, <<1, 2>>, <<2, 0>>, <<1, 3>>, <<2, 3>>, <<3, 1>>, <<3, 3>>}

NextSteps ==
  \/ \E row \in DOMAIN StepSizes : AddNode(row - 1, StepSizes[row])
  \/ \E e \in StepEdges : AddEdgeOfGraph(StepEdges, e[1], e[2])
  \/ \E row \in DOMAIN StepSizes : MarkRootCall(row - 1)
  \/ CalculateRetainedCall
  \/ SweepStep
  \/ SweepReturn
  \/ ChildStep
  \/ FindReturn

SpecSteps == Init /\ [][NextSteps]_vars

-----------------------------------------------------------------------------
\* Vocabulary of the properties: the graph as the caller built it, and the
\* calls the delegate received.

NodeRows == 0..(Len(nodes_) - 1)

ChildrenOf(S) == UNION {nodes_[r + 1].children : r \in S}

\* The rows reachable from S along child edges, S included.
RECURSIVE Reach(_)
Reach(S) ==
  LET T == S \cup ChildrenOf(S) IN IF T = S THEN S ELSE Reach(T)

SizeSum(S) == SumOver([r \in S |-> nodes_[r + 1].self_size], S)

ComponentOf(row) == nodes_[row + 1].component

Members(c) == {r \in NodeRows : ComponentOf(r) = c}

ComponentIds == 0..(Len(components_) - 1)

CallsOf(call, row) ==
  {i \in DOMAIN delegate_ :
     delegate_[i].call = call /\ delegate_[i].row = row}

\* The <<retained_size, unique_size>> pairs SetRetained received for a row.
Retained(row) ==
  {<<delegate_[i].retained_size, delegate_[i].unique_size>> :
     i \in CallsOf("SetRetained", row)}

\* The SetRetained calls received so far, as records.
SetRetainedCalls ==
  {delegate_[i] : i \in {j \in DOMAIN delegate_ :
                           delegate_[j].call = "SetRetained"}}

Sizes == [i \in DOMAIN nodes_ |-> nodes_[i].self_size]

NoFatal == fatal = "none"

-----------------------------------------------------------------------------
\* C1: after CalculateRetained returns every node has a component id other
\* than -1; a component id, once set, never changes; and the check
\* stack_elem->component == -1 of FoundSCC never fails.
C1_Partition ==
  /\ [](/\ fatal # "stack_elem->component == -1"
        /\ calculated => \A r \in NodeRows : ComponentOf(r) \in ComponentIds)
  /\ [][\A i \in DOMAIN nodes_ :
          nodes_[i].component # -1
            => nodes_'[i].component = nodes_[i].component]_vars

\* Two roots were marked, then the sweep ran, over three nodes that form a
\* two-member component and a one-member component.
C1_Witness ==
  /\ calculated /\ Cardinality(roots) = 2
  /\ Len(nodes_) = 3 /\ Len(components_) = 2
  /\ \A r \in NodeRows : ComponentOf(r) # -1

\* C2: two nodes that have a component id (after CalculateRetained: any two
\* nodes) have the same one exactly when each is reachable from the other
\* along child edges.
C2_ComponentsAreSCCs ==
  /\ calculated => \A r \in NodeRows : ComponentOf(r) # -1
  /\ LET reach == [a \in NodeRows |-> Reach({a})]
         comp == [a \in NodeRows |-> ComponentOf(a)]
         assigned == {a \in NodeRows : comp[a] # -1}
     IN \A a \in assigned :
          {b \in assigned : comp[b] = comp[a]}
            = {b \in reach[a] \cap assigned : a \in reach[b]}

\* A cycle of two nodes became one component, and a third node that
\* reaches the cycle but is not reached from it became another.
C2_Witness ==
  /\ calculated
  /\ \E a \in NodeRows : \E b \in NodeRows : \E c \in NodeRows :
       /\ a # b /\ ComponentOf(a) = ComponentOf(b)
       /\ b \in Reach({a}) /\ a \in Reach({b})
       /\ a \in Reach({c}) /\ c \notin Reach({a})
       /\ ComponentOf(c) # ComponentOf(a)

\* C3: SetRetained is never invoked twice for the same row, and once
\* CalculateRetained has returned it has been invoked for every node.
C3_SetRetainedOnce ==
  /\ \A r \in NodeRows : Cardinality(CallsOf("SetRetained", r)) <= 1
  /\ calculated =>
       \A r \in NodeRows : Cardinality(CallsOf("SetRetained", r)) = 1
  /\ \A i \in DOMAIN delegate_ : delegate_[i].row \in NodeRows

\* Three nodes, two marked roots, the sweep has run, and one node was
\* reached by no root (its SetRetained comes from the sweep).
C3_Witness ==
  /\ calculated /\ Len(nodes_) = 3 /\ Cardinality(roots) = 2
  /\ NodeRows \ Reach(roots) # {}
  /\ \A r \in NodeRows : Cardinality(CallsOf("SetRetained", r)) = 1

\* C4: MarkReachable is invoked exactly once for each node reachable along
\* child edges from a marked root and never for any other node.
C4_MarkReachableOnce ==
  LET reached == [r \in NodeRows |-> r \in Reach(roots)]
  IN \A r \in NodeRows :
       /\ Cardinality(CallsOf("MarkReachable", r))
            = (IF reached[r] THEN 1 ELSE 0)
       /\ nodes_[r + 1].reachable <=> reached[r]

\* Two marked roots reach a common node (one root lies below the other),
\* and a third node that is a parent of a reachable node is itself not
\* reachable.
C4_Witness ==
  /\ Cardinality(roots) = 2
  /\ \E d \in NodeRows :
       /\ \A r \in roots : d \in Reach({r})
       /\ Cardinality(CallsOf("MarkReachable", d)) = 1
  /\ \E p \in NodeRows \ Reach(roots) :
       nodes_[p + 1].children \cap Reach(roots) # {}

\* C5: a component's incoming_edges only decreases after its finalization,
\* never below zero, and is zero for every component when CalculateRetained
\* has returned; neither check of incoming_edges == 0 fails.
C5_IncomingEdges ==
  /\ [](/\ fatal \notin {"c.incoming_edges == 0",
                         "child_component.incoming_edges == 0"}
        /\ \A i \in DOMAIN components_ :
             /\ components_[i].incoming_edges >= 0
             /\ components_[i].incoming_edges
                  <= components_[i].orig_incoming_edges
             /\ calculated => components_[i].incoming_edges = 0)
  /\ [][\A i \in DOMAIN components_ :
          components_'[i].incoming_edges
            <= components_[i].incoming_edges]_vars

\* The sweep has run over a component that had two incoming edges from
\* one other component.
C5_Witness ==
  /\ calculated
  /\ \E c \in ComponentIds : \E p \in NodeRows :
       /\ components_[c + 1].orig_incoming_edges >= 2
       /\ components_[c + 1].incoming_edges = 0
       /\ ComponentOf(p) # c
       /\ Cardinality(nodes_[p + 1].children \cap Members(c)) >= 2

\* C6: orig_incoming_edges of a component is the number of distinct edges
\* (p, m) with m a member and p not a member, and never changes once set.
C6_OrigIncomingEdges ==
  /\ [](\A c \in ComponentIds :
          components_[c + 1].orig_incoming_edges
            = Cardinality({e \in Edges : /\ ComponentOf(e[2]) = c
                                         /\ ComponentOf(e[1]) # c}))
  /\ [][\A i \in DOMAIN components_ :
          components_'[i].orig_incoming_edges
            = components_[i].orig_incoming_edges]_vars

\* A two-member component with a self-edge on a member, an edge between
\* its members and an edge from outside.
C6_Witness ==
  \E c \in ComponentIds :
    /\ Cardinality(Members(c)) = 2
    /\ components_[c + 1].orig_incoming_edges = 1
    /\ \E m \in Members(c) : <<m, m>> \in Edges

\* The largest set that contains M, holds only rows reachable from M, and
\* in which every row outside M has all of its parents inside the set.
RECURSIVE Freed(_, _)
Freed(M, F) ==
  IF \A r \in F \ M : nodes_[r + 1].parents \subseteq F THEN F
  ELSE Freed(M, {r \in F : r \in M \/ nodes_[r + 1].parents \subseteq F})

\* C7 as stated: the retained_size emitted for a node is the sum of the self
\* sizes of the nodes freed when every external reference into its component
\* disappears (nodes still owned from outside are not counted).
C7_Original ==
  \A i \in DOMAIN delegate_ :
    delegate_[i].call = "SetRetained" =>
      delegate_[i].retained_size
        = SizeSum(Freed(Members(ComponentOf(delegate_[i].row)),
                        Reach(Members(ComponentOf(delegate_[i].row)))))

\* C7, amended: the retained_size emitted for a node is the sum of the self
\* sizes of all nodes reachable from its component along child edges, its
\* members included, each counted once; a reachable node that has another
\* owner outside that set is counted as well.
C7_RetainedIsReachable ==
  LET reachable == [c \in ComponentIds |-> SizeSum(Reach(Members(c)))]
  IN \A i \in DOMAIN delegate_ :
       delegate_[i].call = "SetRetained" =>
         delegate_[i].retained_size
           = reachable[ComponentOf(delegate_[i].row)]

\* SetRetained was called for a node that reaches a node which has another
\* parent that the first node does not reach.
C7_Witness ==
  \E i \in DOMAIN delegate_ : \E s \in NodeRows :
    /\ delegate_[i].call = "SetRetained"
    /\ s \in Reach({delegate_[i].row})
    /\ ComponentOf(s) # ComponentOf(delegate_[i].row)
    /\ nodes_[s + 1].parents \ Reach({delegate_[i].row}) # {}

\* The P5 chain A -> B -> C on rows 0, 1, 2 with sizes 10/20/30, A marked
\* as root and the sweep done.
ChainDone ==
  /\ calculated /\ roots = {0}
  /\ Sizes = <<10, 20, 30>>
  /\ Edges = {<<0, 1>>, <<1, 2>>}

\* C8 as stated: on the chain, retained_size is 60/50/30 and each
\* unique_size is the node's own self size.
C8_Original ==
  ChainDone =>
    /\ Retained(0) = {<<60, 10>>}
    /\ Retained(1) = {<<50, 20>>}
    /\ Retained(2) = {<<30, 30>>}

\* C8, amended: on the chain, retained_size is 60 for A, 50 for B and 30 for
\* C, and the unique_size reported for each node equals its retained_size
\* (60, 50 and 30): each node is the sole owner of its successor.
C8_Chain ==
  ChainDone =>
    /\ Retained(0) = {<<60, 60>>}
    /\ Retained(1) = {<<50, 50>>}
    /\ Retained(2) = {<<30, 30>>}

C8_Witness == ChainDone /\ NoFatal /\ Len(delegate_) = 6

\* The P6 diamond with R marked as root and the sweep done.
DiamondDone ==
  /\ calculated /\ roots = {0}
  /\ Sizes = DiamondSizes
  /\ Edges = DiamondEdges

\* C9: on the diamond, R's retained_size is 131, A's is 110 and B's is 120,
\* and S is credited to neither A's nor B's unique_size (10 and 20).  When
\* A alone has been finalized (MarkRoot(A) and nothing else), S is in A's
\* ledger with fraction 1/2.
C9_Diamond ==
  /\ DiamondDone =>
       /\ {p[1] : p \in Retained(0)} = {131}
       /\ Retained(1) = {<<110, 10>>}
       /\ Retained(2) = {<<120, 20>>}
  /\ (Sizes = DiamondSizes /\ Edges = DiamondEdges /\ roots = {1}
        /\ ~calculated) =>
       /\ DOMAIN components_[ComponentOf(1) + 1].children_components
            = {ComponentOf(3)}
       /\ components_[ComponentOf(1) + 1].children_components[ComponentOf(3)]
            = <<1, 2>>
       /\ Retained(1) = {<<110, 10>>}

C9_Witness == DiamondDone /\ NoFatal /\ Len(delegate_) = 8

\* The P4 cycle A -> B -> C -> A on rows 0, 1, 2 with sizes 10/20/30 and no
\* other edge, the sweep done.
CycleDone ==
  /\ calculated
  /\ Sizes = <<10, 20, 30>>
  /\ Edges = {<<0, 1>>, <<1, 2>>, <<2, 0>>}

\* C10: the members of one component are all reported with the same
\* retained_size; on the cycle all three nodes report retained_size 60 and
\* their own self size as unique_size, whichever node the search starts at.
C10_CycleCollapse ==
  /\ LET calls == SetRetainedCalls
     IN \A c \in calls : \A d \in calls :
          ComponentOf(c.row) = ComponentOf(d.row)
            => c.retained_size = d.retained_size
  /\ CycleDone =>
       /\ Retained(0) = {<<60, 10>>}
       /\ Retained(1) = {<<60, 20>>}
       /\ Retained(2) = {<<60, 30>>}

\* The cycle, with the search started from B (row 1) by MarkRoot.
C10_Witness == CycleDone /\ roots = {1} /\ Len(components_) = 1

-----------------------------------------------------------------------------
\* The sum of unique_size - self_size over the given SetRetained calls.
Credit(calls) ==
  SumOver([d \in calls |-> d.unique_size - nodes_[d.row + 1].self_size],
          calls)

\* C11: for every SetRetained call, self_size <= unique_size <= retained_size,
\* and over the members of a component the sum of unique_size - self_size
\* is at most the component's unique_retained_size minus the members' self
\* sizes.
C11_SizeOrder ==
  LET calls == SetRetainedCalls
  IN /\ \A d \in calls :
          /\ nodes_[d.row + 1].self_size <= d.unique_size
          /\ d.unique_size <= d.retained_size
     /\ \A c \in ComponentIds :
          Credit({d \in calls : ComponentOf(d.row) = c})
            <= components_[c + 1].unique_retained_size
                 - SizeSum(Members(c))

\* A member of a two-member component was credited with a child component
\* it alone owns, and reports self_size < unique_size < retained_size.
C11_Witness ==
  \E d \in SetRetainedCalls :
    /\ Cardinality(Members(ComponentOf(d.row))) = 2
    /\ nodes_[d.row + 1].self_size < d.unique_size
    /\ d.unique_size < d.retained_size

-----------------------------------------------------------------------------
\* numerator_/denominator_ is in lowest terms with denominator_ > 0, and is
\* 0/1 when the numerator is 0.
LowestTerms(value) ==
  /\ value[2] > 0
  /\ value[1] = 0 => value[2] = 1
  /\ \A g \in 2..value[2] : ~(value[1] % g = 0 /\ value[2] % g = 0)

\* value is the rational number n/d.
IsRational(value, n, d) == value[1] * d = n * value[2]

\* C12: Fraction(n, d) with d > 0, a += b and a * b store the exact rational
\* value n/d, a + b and a * b in lowest terms, with denominator > 0 and
\* denominator 1 when the numerator is 0; f == k holds exactly when the
\* stored value is k/1.  Fraction(2,4) += Fraction(1,4) stores 3/4, and
\* Fraction(1,3) * Fraction(3,1) stores 1/1, which == 1.
C12_FractionExact ==
  /\ LowestTerms(fraction.value)
  /\ fraction.op = "Fraction" =>
       IsRational(fraction.value, fraction.rhs[1], fraction.rhs[2])
  /\ fraction.op = "+=" =>
       IsRational(fraction.value,
                  fraction.lhs[1] * fraction.rhs[2]
                    + fraction.rhs[1] * fraction.lhs[2],
                  fraction.lhs[2] * fraction.rhs[2])
  /\ fraction.op = "*" =>
       IsRational(fraction.value, fraction.lhs[1] * fraction.rhs[1],
                  fraction.lhs[2] * fraction.rhs[2])
  /\ \A k \in 0..MaxFraction :
       FractionEq(fraction.value, k) <=> fraction.value = <<k, 1>>
  /\ (fraction.op = "+=" /\ fraction.lhs = Fraction(2, 4)
        /\ fraction.rhs = Fraction(1, 4)) => fraction.value = <<3, 4>>
  /\ (fraction.op = "*" /\ fraction.lhs = Fraction(1, 3)
        /\ fraction.rhs = Fraction(3, 1)) =>
       fraction.value = <<1, 1>> /\ FractionEq(fraction.value, 1)

\* Fraction(2,4) += Fraction(1,4) has been computed.
C12_Witness ==
  /\ fraction.op = "+=" /\ fraction.lhs = <<1, 2>> /\ fraction.rhs = <<1, 4>>
  /\ fraction.value = <<3, 4>>

-----------------------------------------------------------------------------
\* The position in delegate_ of the SetRetained call for a row, 0 if none.
SetRetainedAt(row) ==
  LET at == CallsOf("SetRetained", row)
  IN IF at = {} THEN 0 ELSE MinOf(at)

\* C13: components are finalized in dependency order.  The check
\* child->component != -1 never fails; the child of a node that has a
\* component has a component, and if it is another one it has the smaller
\* id and its SetRetained call came earlier; every key of a component's
\* ledger is smaller than the component's id; and the calls the delegate
\* has received and the components finalized so far stay as they are, in
\* their order, when later ones are added.
C13_DependencyOrder ==
  /\ [](/\ fatal # "child->component != -1"
        /\ LET comp == [r \in NodeRows |-> ComponentOf(r)]
               at == [r \in NodeRows |-> SetRetainedAt(r)]
           IN \A u \in NodeRows : \A v \in nodes_[u + 1].children :
                comp[u] # -1 =>
                  /\ comp[v] # -1
                  /\ comp[v] <= comp[u]
                  /\ at[u] > 0 /\ at[v] > 0
                  /\ comp[v] # comp[u] => at[v] < at[u]
        /\ \A c \in ComponentIds :
             \A k \in DOMAIN components_[c + 1].children_components :
               k >= 0 /\ k < c)
  /\ [][/\ Len(delegate_') >= Len(delegate_)
        /\ SubSeq(delegate_', 1, Len(delegate_)) = delegate_
        /\ Len(components_') >= Len(components_)
        /\ \A i \in DOMAIN components_ :
             components_'[i].lowlink = components_[i].lowlink]_vars

\* A descendant was marked as root before its ancestor: both are roots, the
\* descendant's MarkReachable call came first, they are in different
\* components, and the ancestor's component has a ledger entry.
C13_Witness ==
  \E a \in roots : \E d \in roots :
    /\ d \in Reach({a}) /\ a \notin Reach({d})
    /\ MinOf(CallsOf("MarkReachable", d)) < MinOf(CallsOf("MarkReachable", a))
    /\ ComponentOf(a) # -1 /\ ComponentOf(d) < ComponentOf(a)
    /\ components_[ComponentOf(a) + 1].children_components # EmptyMap

-----------------------------------------------------------------------------
\* The rows outside the component of member n that the component reaches
\* only through edges that leave it at n.
SoleContributor(n) ==
  LET K == Members(ComponentOf(n))
      leaving == {e \in Edges : e[1] \in K /\ e[2] \notin K}
  IN {x \in Reach(K) \ K :
        \A e \in leaving : x \in Reach({e[2]}) => e[1] = n}

\* The whole graph of SharedEdges was built and the sweep is done.
SharedDone ==
  /\ calculated
  /\ Sizes = SharedSizes
  /\ Edges = SharedEdges

\* C14: a node's unique_size credits it, beyond its self size, only with
\* components whose shares all arrived through edges that leave the new
\* component at that node; on the cycle M1 <-> M2 with M1 -> C -> G and
\* M2 -> D -> G, G is credited to neither member: M1 reports 1 + 4 and M2
\* reports 2 + 8 as unique_size.
C14_SoleContributor ==
  /\ \A d \in SetRetainedCalls :
       d.unique_size - nodes_[d.row + 1].self_size
         <= SizeSum(SoleContributor(d.row))
  /\ SharedDone =>
       /\ {p[2] : p \in Retained(0)} = {5}
       /\ {p[2] : p \in Retained(1)} = {10}

-----------------------------------------------------------------------------
\* C15 as stated: every component whose incoming_edges is 0 has an empty
\* children_components ledger.
C15_Original ==
  \A c \in ComponentIds :
    components_[c + 1].incoming_edges = 0
      => components_[c + 1].children_components = EmptyMap

\* C15, amended: every component that had incoming edges when it was
\* finalized (orig_incoming_edges > 0) and whose incoming_edges has been
\* brought down to 0 has an empty children_components ledger; and the
\* ledger of a finalized component changes only by being cleared.
C15_LedgerCleared ==
  /\ [](\A c \in ComponentIds :
          (components_[c + 1].orig_incoming_edges > 0
             /\ components_[c + 1].incoming_edges = 0)
            => components_[c + 1].children_components = EmptyMap)
  /\ [][\A i \in DOMAIN components_ :
          \/ components_'[i].children_components
               = components_[i].children_components
          \/ /\ components_'[i].children_components = EmptyMap
             /\ components_'[i].incoming_edges = 0]_vars

\* A component that owned a child component only in part (the child has
\* more incoming edges than this component has edges into it) has had its
\* incoming_edges brought down to 0 by its parents.
C15_Witness ==
  \E c \in ComponentIds : \E x \in ComponentIds \ {c} :
    /\ components_[c + 1].orig_incoming_edges > 0
    /\ components_[c + 1].incoming_edges = 0
    /\ components_[c + 1].children_components = EmptyMap
    /\ {e \in Edges : ComponentOf(e[1]) = c /\ ComponentOf(e[2]) = x} # {}
    /\ components_[x + 1].orig_incoming_edges
         > Cardinality({e \in Edges : /\ ComponentOf(e[1]) = c
                                      /\ ComponentOf(e[2]) = x})

-----------------------------------------------------------------------------
\* The edges from a member of component k to a member of component c.
EdgesBetween(k, c) ==
  {e \in Edges : ComponentOf(e[1]) = k /\ ComponentOf(e[2]) = c}

\* The members of component k that have at least one child in component c.
OwnersIn(k, c) == {e[1] : e \in EdgesBetween(k, c)}

\* Component k reaches component c by its direct edges only.
DirectOnly(k, c) ==
  \A y \in Reach(Members(k)) \ (Members(k) \cup Members(c)) :
    Reach({y}) \cap Members(c) = {}

\* C16 as stated: the edge_count recorded for a child component c at the
\* finalization of a component k, by which c's incoming_edges is decremented
\* and which is the numerator of the fraction over c.orig_incoming_edges, is
\* the number of members of k that have a child in c.
C16_Original ==
  LET edges == Edges
      comp == [r \in NodeRows |-> ComponentOf(r)]
  IN \A c \in ComponentIds :
       /\ components_[c + 1].orig_incoming_edges
            - components_[c + 1].incoming_edges
          = Cardinality({e[1] : e \in {x \in edges :
                                         /\ comp[x[2]] = c
                                         /\ comp[x[1]] \notin {c, -1}}})
       /\ \A k \in ComponentIds :
            (c \in DOMAIN components_[k + 1].children_components
               /\ DirectOnly(k, c)) =>
              components_[k + 1].children_components[c]
                = Fraction(Cardinality(OwnersIn(k, c)),
                           components_[c + 1].orig_incoming_edges)

\* C16, amended: the edge_count is the number of distinct edges from a
\* member of k to a member of c (a member with two children in c counts
\* twice).
C16_EdgeCount ==
  LET edges == Edges
      comp == [r \in NodeRows |-> ComponentOf(r)]
  IN \A c \in ComponentIds :
       /\ components_[c + 1].orig_incoming_edges
            - components_[c + 1].incoming_edges
          = Cardinality({x \in edges : /\ comp[x[2]] = c
                                       /\ comp[x[1]] \notin {c, -1}})
       /\ \A k \in ComponentIds :
            (c \in DOMAIN components_[k + 1].children_components
               /\ DirectOnly(k, c)) =>
              components_[k + 1].children_components[c]
                = Fraction(Cardinality(EdgesBetween(k, c)),
                           components_[c + 1].orig_incoming_edges)

\* A finalized component has a member with two children in one other
\* component.
C16_Witness ==
  \E k \in ComponentIds : \E c \in ComponentIds \ {k} :
    /\ Cardinality(EdgesBetween(k, c)) = 2
    /\ Cardinality(OwnersIn(k, c)) = 1
    /\ components_[c + 1].incoming_edges = 0

-----------------------------------------------------------------------------
\* A second walker over the same graph on which no root is marked: the
\* nodes as AddNode and AddEdge left them.
Unvisited(node) ==
  [node EXCEPT !.node_index = 0, !.lowlink = 0, !.component = -1,
               !.on_stack = FALSE, !.reachable = FALSE]

SecondWalker ==
  Walker([i \in DOMAIN nodes_ |-> Unvisited(nodes_[i])], <<>>, <<>>, 1, <<>>,
         "none")

\* The SetRetained calls of CalculateRetained on the second walker.
SecondRun ==
  {c \in {CalculateRetainedOf(SecondWalker).delegate[i] :
            i \in DOMAIN CalculateRetainedOf(SecondWalker).delegate} :
     c.call = "SetRetained"}

\* C17: the (retained_size, unique_size) emitted for a row does not depend
\* on the order of the MarkRoot calls: once CalculateRetained has returned,
\* the SetRetained calls are those of a run on the same graph without
\* MarkRoot calls.
C17_OrderInsensitive ==
  calculated /\ NoFatal => SetRetainedCalls = SecondRun

-----------------------------------------------------------------------------
\* The walker without the self-edges n -> n of its graph.
WithoutSelfEdges(w) ==
  [w EXCEPT !.nodes =
     [i \in DOMAIN w.nodes |->
        [w.nodes[i] EXCEPT !.children = @ \ {i - 1},
                           !.parents = @ \ {i - 1}]]]

\* The walker after the step.
NextWalker ==
  Walker(nodes_', components_', node_stack_', next_node_index_', delegate_',
         fatal')

\* A MarkRoot or CalculateRetained step does to the walker what the same
\* call does to the walker without self-edges.
SelfEdgeStep ==
  IF roots' # roots
  THEN WithoutSelfEdges(NextWalker)
         = MarkRootOf(WithoutSelfEdges(ThisWalker),
                      CHOOSE r \in roots' : r \notin roots)
  ELSE (components_' # components_ \/ calculated' # calculated)
         => WithoutSelfEdges(NextWalker)
              = CalculateRetainedOf(WithoutSelfEdges(ThisWalker))

\* C18: self-edges need no special handling.  No PERFETTO_CHECK fails;
\* every MarkRoot and CalculateRetained call leaves the walker (components
\* with their incoming-edge counters and ledgers, and the MarkReachable and
\* SetRetained calls, in order) as the same call leaves the walker of the
\* same graph without its self-edges; and a node with a self-edge that is
\* on no other cycle is the only member of its component.
C18_SelfEdge ==
  /\ [](/\ fatal = "none"
        /\ \A n \in NodeRows :
             (n \in nodes_[n + 1].children /\ ComponentOf(n) # -1
                /\ \A m \in NodeRows \ {n} :
                     ~(m \in Reach({n}) /\ n \in Reach({m})))
               => Members(ComponentOf(n)) = {n})
  /\ [][SelfEdgeStep]_vars

\* The sweep is done on a graph where a node with a self-edge has a parent
\* and a child in other components, after a MarkRoot call.
C18_Witness ==
  /\ calculated /\ roots # {}
  /\ \E n \in NodeRows :
       /\ n \in nodes_[n + 1].children
       /\ Members(ComponentOf(n)) = {n}
       /\ nodes_[n + 1].parents \ {n} # {}
       /\ nodes_[n + 1].children \ {n} # {}

-----------------------------------------------------------------------------
\* The ledger of component c is as its finalization left it: no parent has
\* cleared it.
LedgerKept(c) ==
  \/ components_[c + 1].orig_incoming_edges = 0
  \/ components_[c + 1].incoming_edges > 0

\* C19: the retained_size emitted for a node is the sum of the self sizes
\* of the nodes reachable from it along child edges, itself included, each
\* once.  A component's unique_retained_size is the sum over the reachable
\* nodes all of whose owners are reachable from it too (the absorbed ones);
\* the keys of its ledger are components of the other reachable nodes, and
\* unique_retained_size plus the unique_retained_size of the ledger's
\* components is the sum over all reachable nodes.
C19_RetainedPerNode ==
  LET reach == [r \in NodeRows |-> Reach({r})]
      reached == [c \in ComponentIds |-> UNION {reach[r] : r \in Members(c)}]
      absorbed == [c \in ComponentIds |-> Freed(Members(c), reached[c])]
      unique == [c \in ComponentIds |->
                   components_[c + 1].unique_retained_size]
  IN /\ \A d \in SetRetainedCalls :
          d.retained_size = SizeSum(reach[d.row])
     /\ \A c \in ComponentIds :
          /\ unique[c] = SizeSum(absorbed[c])
          /\ LedgerKept(c) =>
               /\ \A k \in DOMAIN components_[c + 1].children_components :
                    /\ Members(k) # {}
                    /\ Members(k) \subseteq reached[c] \ absorbed[c]
               /\ unique[c]
                    + SumOver(unique,
                              DOMAIN components_[c + 1].children_components)
                  = SizeSum(reached[c])

\* The sweep is done and a node was reported that reaches a node of
\* another component along two paths, through two different parents.
C19_Witness ==
  /\ calculated
  /\ \E d \in SetRetainedCalls : \E x \in Reach({d.row}) :
       /\ ComponentOf(x) # ComponentOf(d.row)
       /\ Cardinality(nodes_[x + 1].parents) = 2
       /\ nodes_[x + 1].parents \subseteq Reach({d.row})
       /\ d.retained_size > nodes_[d.row + 1].self_size + nodes_[x + 1].self_size

-----------------------------------------------------------------------------
\* Where a node stands: 0 unvisited, 1 on the stack, 2 resolved into a
\* component, and 3 anything else.
Phase(node) ==
  IF node.node_index = 0 /\ ~node.on_stack /\ node.component = -1 THEN 0
  ELSE IF node.node_index # 0 /\ node.on_stack /\ node.component = -1 THEN 1
  ELSE IF node.node_index # 0 /\ ~node.on_stack /\ node.component # -1 THEN 2
  ELSE 3

\* C20: every node is unvisited, on the stack (with a discovery index and
\* no component) or resolved; the nodes with on_stack set are those of
\* node_stack_; when no call is in progress (MarkRoot or CalculateRetained
\* has returned) node_stack_ is empty, no node has on_stack set and every
\* node with a discovery index has a component; and a step moves a node from
\* unvisited to on the stack or from on the stack to resolved, never back,
\* and changes neither a discovery index nor a component once set.
C20_NodeStates ==
  /\ [](/\ fatal = "none"
        /\ \A i \in DOMAIN nodes_ :
             /\ Phase(nodes_[i]) \in {0, 1, 2}
             /\ nodes_[i].on_stack
                  <=> \E k \in DOMAIN node_stack_ : node_stack_[k] = i - 1
        /\ frames = <<>> =>
             /\ node_stack_ = <<>>
             /\ \A i \in DOMAIN nodes_ : Phase(nodes_[i]) \in {0, 2})
  /\ [][\A i \in DOMAIN nodes_ :
          /\ Phase(nodes_'[i]) >= Phase(nodes_[i])
          /\ Phase(nodes_'[i]) <= Phase(nodes_[i]) + 1
          /\ nodes_[i].node_index # 0
               => nodes_'[i].node_index = nodes_[i].node_index
          /\ nodes_[i].component # -1
               => nodes_'[i].component = nodes_[i].component]_vars

\* In the middle of a search: FindSCC calls are nested two deep, two nodes
\* are on the stack, one node is resolved and one is unvisited.
C20_Witness ==
  /\ Len(frames) >= 2 /\ Len(node_stack_) = 2
  /\ \E i \in DOMAIN nodes_ : Phase(nodes_[i]) = 2
  /\ \E i \in DOMAIN nodes_ : Phase(nodes_[i]) = 0

====
